---- MODULE Spec2Model ----
(***************************************************************************)
(* The account ledger of the bank management system: the customers and     *)
(* transactions tables (src/init_db.py) and the money-movement operations  *)
(* of the Flask handlers (src/app.py) and of the CLI menu                  *)
(* (src/bank_management.py), run by concurrent sessions against one        *)
(* PostgreSQL database at its default isolation level (READ COMMITTED).    *)
(*                                                                         *)
(* Every SQL statement that another session can observe or wait for is one *)
(* step: the reads of the committed tables, each UPDATE (it waits for the  *)
(* row's lock), the commit.  The statements that follow an UPDATE and touch *)
(* only what the session's own transaction holds (the SELECT of the row it *)
(* has just updated and locked, the INSERT of the ledger entry) are part   *)
(* of the UPDATE's step: nothing another session does in between can       *)
(* change what they read or write.                                         *)
(*                                                                         *)
(* Money is counted in quarters of 0.01, so that an amount typed with more *)
(* than two decimals (0.005 = 2 units) is a value of the model and the     *)
(* NUMERIC(15, 2) columns round it as PostgreSQL does.                     *)
(***************************************************************************)
EXTENDS Integers, Sequences, FiniteSets, TLC

VARIABLES
    customers,        \* committed rows of customers: account_number -> balance
    transactions,     \* committed rows of transactions (a set of records)
    nextId,           \* transactions_transaction_id_seq: the next transaction_id
    pc,               \* each session's position in the handler it runs
    op,               \* each session's request: entry point, operation, inputs
    current_balance,  \* each session's local variable of that name
    tx,               \* each session's open transaction: its uncommitted writes
    res,              \* what each session's last request returned and made durable
    login,            \* session['account_number']: the account each session is logged in to
    started,          \* number of requests issued so far
    users,            \* committed rows of users (a set of records)
    email,            \* customers.email, which is UNIQUE: account_number -> email
    nextAccount,      \* customers_account_number_seq: the next account_number
    closing,          \* the last call of delete_account and the answer it was given
    listing,          \* transaction_date of the recorded entries, and the last listing returned
    now,              \* the server's clock
    details,          \* customers.account_type, name, phone and address: account_number -> record
    began             \* when the open transaction of each session's connection began (0: none)

vars == <<customers, transactions, nextId, pc, op, current_balance, tx, res, login, started,
          users, email, details, nextAccount, closing, listing, now, began>>

\* ------------------------------------------------------------------ bounds

MaxOps == 2
MaxEntries == 7
MaxTime == 3

\* --------------------------------------------------------------- constants

\* Money is counted in quarters of 0.01, the unit of a NUMERIC(15, 2) column,
\* so that a float amount may carry more decimals than the column keeps.
Cent == 4
Rupee == 100 * Cent
HalfCent == Cent \div 2

AllSessions == {"s1", "s2", "s3"}
Sessions == {"s1", "s2"}
Accounts == {1, 2}
Amounts == {0, HalfCent, 500 * Rupee}

\* ----------------------------------------------------------- Python values

None == [found |-> FALSE, balance |-> 0]
Some(b) == [found |-> TRUE, balance |-> b]

\* Decimal - float, as bank_management.py line 250 computes new_balance: the
\* balance column comes back as decimal.Decimal and amount is float(input()).
DecimalMinusFloatArith(d, f) == Some(d - f)
DecimalMinusFloat(d, f) == None

\* ------------------------------------------------------------- SQL values

\* NUMERIC(15, 2): a value is rounded to two decimals, ties away from zero.
Numeric2(x) ==
    IF x >= 0 THEN ((x + HalfCent) \div Cent) * Cent
    ELSE -((((-x) + HalfCent) \div Cent) * Cent)

EmptyTx == [rows |-> <<>>, entries |-> {}]
NoForm ==
    [email |-> "", username |-> "", account_type |-> "", name |-> "", phone |-> "",
     address |-> ""]
NoOp == [entry |-> "none", kind |-> "none", acct |-> 0, target |-> 0, amount |-> 0,
         form |-> NoForm]
Request(entry, kind, a, target, amount) ==
    [entry |-> entry, kind |-> kind, acct |-> a, target |-> target, amount |-> amount,
     form |-> NoForm]

\* What a request returned: its outcome, the balance its funds check read
\* (None when it made none), whether it had a connection, and the uncommitted
\* writes it held when it ended.
Result(outcome, read, connected, held) ==
    [outcome |-> outcome, read |-> read, connected |-> connected, held |-> held]
NoRes ==
    [outcome |-> "none", read |-> None, connected |-> TRUE, held |-> EmptyTx,
     pre |-> <<>>, post |-> <<>>, entries |-> {}, bound |-> {}]

\* What session s sees: READ COMMITTED shows the committed rows and its own writes.
View(s) ==
    [a \in DOMAIN customers |->
        IF a \in DOMAIN tx[s].rows THEN tx[s].rows[a] ELSE customers[a]]

\* SELECT balance FROM customers WHERE account_number = a, then fetchone().
get_account_balance(s, a) ==
    IF a \in DOMAIN customers THEN Some(View(s)[a]) ELSE None

\* The same SELECT inside a transaction whose uncommitted rows are rows.
Selected(rows, a) ==
    IF a \notin DOMAIN customers THEN None
    ELSE IF a \in DOMAIN rows THEN Some(rows[a]) ELSE Some(customers[a])

\* The row lock an UPDATE takes is held until the transaction ends.
RowLockedByOtherNever(s, a) == FALSE
RowLockedByOther(s, a) ==
    \E t \in AllSessions \ {s} : a \in DOMAIN tx[t].rows

\* UPDATE customers SET balance = balance + delta WHERE account_number = a:
\* the rows of the transaction afterwards (no row matches a closed account).
UpdateBalanceNoWhere(s, a, delta) == [b \in DOMAIN customers |-> Numeric2(View(s)[b] + delta)]
UpdateBalance(s, a, delta) ==
    IF a \in DOMAIN customers
    THEN (a :> Numeric2(View(s)[a] + delta)) @@ tx[s].rows
    ELSE tx[s].rows

\* INSERT INTO transactions: balance_after is NOT NULL and account_number
\* references customers.
InsertFails(a, balance_after) ==
    (~balance_after.found) \/ (a \notin DOMAIN customers)

\* The row an INSERT INTO transactions writes; related_account is {} for
\* NULL, and of a description only its fixed text is kept.
record_transaction(id, a, txn_type, amount, balance_after, related_account, description) ==
    [transaction_id |-> id, account_number |-> a, transaction_type |-> txn_type,
     amount |-> Numeric2(amount), balance_after |-> Numeric2(balance_after.balance),
     related_account |-> related_account, description |-> description]

\* ------------------------------------------------- ending a request

\* The committed customers table with the rows of a transaction written to it.
Applied(table, rows) ==
    [a \in DOMAIN table |-> IF a \in DOMAIN rows THEN rows[a] ELSE table[a]]

\* bank_management.py withdraw and transfer leave through a bare return when
\* the funds or the recipient is missing: the connection, which the menu goes
\* on using, keeps the transaction its SELECT began. Everywhere else the
\* transaction is committed or rolled back, or its connection is gone.
LeftOpenCaught(s, r) == op[s].entry = "cli" /\ r.outcome \in {"InsufficientFunds", "RecipientNotFound", "TypeError"}
LeftOpen(s, r) ==
    op[s].entry = "cli" /\ r.outcome \in {"InsufficientFunds", "RecipientNotFound"}

\* The request returns r: the session's transaction is over, unless it was
\* left open, with what it held; r is kept together with the committed
\* tables before and after this very step, the entries and the rows of users
\* (bound) the step made durable.
ReturnWith(s, r, bound) ==
    /\ pc' = [pc EXCEPT ![s] = "idle"]
    /\ tx' = [tx EXCEPT ![s] = IF LeftOpen(s, r) THEN r.held ELSE EmptyTx]
    /\ current_balance' = [current_balance EXCEPT ![s] = None]
    /\ res' = [res EXCEPT ![s] =
                  [outcome |-> r.outcome, read |-> r.read, connected |-> r.connected,
                   held |-> r.held, pre |-> customers, post |-> customers',
                   entries |-> transactions' \ transactions,
                   bound |-> bound]]
    /\ began' = [began EXCEPT ![s] = IF LeftOpen(s, r) THEN @ ELSE 0]

\* Only opening an account writes rows of users.
Return(s, r) == ReturnWith(s, r, {})

\* conn.commit() of a transaction that wrote held.rows and held.entries
CommitWith(s, held, outcome) ==
    /\ customers' = Applied(customers, held.rows)
    /\ transactions' = transactions \cup held.entries
    /\ Return(s, Result(outcome, current_balance[s], TRUE, held))

Commit(s, outcome) == CommitWith(s, tx[s], outcome)

\* conn.rollback(), or the connection closed or lost with the transaction open
Rollback(s, r) ==
    /\ UNCHANGED <<customers, transactions>>
    /\ Return(s, r)

\* except Exception as e: conn.rollback() (app.py); except Error as e:
\* connection.rollback() (bank_management.py); held is what the transaction
\* had written when the exception was raised.
ExceptCommits(s, outcome, held) == CommitWith(s, held, outcome)
Except(s, outcome, held) ==
    Rollback(s, Result(outcome, current_balance[s], TRUE, held))

\* An exception the CLI does not catch (TypeError is no psycopg2.Error): the
\* program ends and the server drops the open transaction.
UncaughtCommits(s, held) == CommitWith(s, held, "TypeError")
Uncaught(s, held) ==
    Rollback(s, Result("TypeError", current_balance[s], TRUE, held))

\* A step inside a handler: the committed tables stay as they are.
Goto(s, next) ==
    /\ pc' = [pc EXCEPT ![s] = next]
    /\ UNCHANGED <<customers, transactions, res, began>>

\* A step of a deposit, a withdrawal or a transfer: the request stays as it
\* is, and so do the tables and sequences only opening and closing touch.
InHandler == UNCHANGED <<op, login, started, users, email, details, nextAccount, closing, listing, now>>

\* Requests are issued while the budget lasts.
Budget == started < MaxOps

\* A new request of session s, for the account it is logged in to.
Begin(s, entry, kind, target, amount) ==
    /\ pc[s] = "idle"
    /\ started' = started + 1
    /\ op' = [op EXCEPT ![s] = Request(entry, kind, login[s], target, amount)]
    /\ UNCHANGED <<login, users, email, details, nextAccount, closing, listing, now>>

\* The request is turned down before any statement wrote.
Refuse(s, outcome, read, connected) ==
    /\ UNCHANGED <<customers, transactions, nextId, pc, tx, current_balance, began>>
    /\ res' = [res EXCEPT ![s] =
                  [outcome |-> outcome, read |-> read, connected |-> connected,
                   held |-> EmptyTx, pre |-> customers, post |-> customers,
                   entries |-> {}, bound |-> {}]]

\* The request passes its checks and goes on at position next, with the
\* balance it read in its local variable. The handler issues its first
\* statement, before which psycopg2 sends BEGIN: on the connection app.py
\* has just opened, and on the connection of bank_management.py unless a
\* transaction is open on it already.
Accept(s, next, balance) ==
    /\ UNCHANGED <<customers, transactions, nextId, tx>>
    /\ pc' = [pc EXCEPT ![s] = next]
    /\ current_balance' = [current_balance EXCEPT ![s] = balance]
    /\ res' = [res EXCEPT ![s] = NoRes]
    /\ began' = [began EXCEPT ![s] = IF op'[s].entry = "cli" /\ @ # 0 THEN @ ELSE now]

\* transaction_date TIMESTAMP DEFAULT CURRENT_TIMESTAMP (init_db.py line 47):
\* no INSERT names the column, and CURRENT_TIMESTAMP is the time the current
\* transaction began.
Inserted(e, transaction_date) ==
    [transaction_id |-> e.transaction_id, account_number |-> e.account_number,
     transaction_type |-> e.transaction_type, amount |-> e.amount,
     balance_after |-> e.balance_after, related_account |-> e.related_account,
     description |-> e.description, transaction_date |-> transaction_date]

\* The session's transaction after an UPDATE left it rows and the INSERTs
\* that follow added entries, each with the next value of the sequence.
Held(s, rows, entries) ==
    [rows |-> rows,
     entries |-> tx[s].entries \cup {Inserted(e, began[s]) : e \in entries}]
Write(s, rows, entries) ==
    /\ tx' = [tx EXCEPT ![s] = Held(s, rows, entries)]
    /\ nextId' = nextId + Cardinality(entries)

\* ------------------------------------------------------------ web: deposit

\* app.py deposit, lines 201-206: the amount check.
WebDeposit(s, amount) ==
    /\ Begin(s, "web", "deposit", 0, amount)
    /\ IF amount <= 0
       THEN Refuse(s, "InvalidAmount", None, TRUE)
       ELSE Accept(s, "wdep_update", None)

\* lines 213-217: UPDATE customers SET balance = balance + amount;
\* new_balance = get_account_balance(); record_transaction()
WebDepositUpdate(s) ==
    /\ pc[s] = "wdep_update"
    /\ ~RowLockedByOther(s, op[s].acct)
    /\ InHandler
    /\ LET rows == UpdateBalance(s, op[s].acct, op[s].amount)
           new_balance == Selected(rows, op[s].acct)
       IN
       IF InsertFails(op[s].acct, new_balance)
       THEN Except(s, "IntegrityError", Held(s, rows, {})) /\ UNCHANGED nextId
       ELSE /\ Write(s, rows, {record_transaction(nextId, op[s].acct, "Deposit",
                                                  op[s].amount, new_balance, {},
                                                  "Cash deposit")})
            /\ Goto(s, "wdep_commit")
            /\ UNCHANGED current_balance

\* line 218: conn.commit()
WebDepositCommit(s) ==
    /\ pc[s] = "wdep_commit"
    /\ Commit(s, "ok")
    /\ UNCHANGED nextId
    /\ InHandler

\* ----------------------------------------------------------- web: withdraw

\* app.py withdraw, lines 237-252: the balance is read on a connection of its
\* own (0 when there is none), then the amount is checked against it.
WebWithdraw(s, amount, connUp) ==
    /\ Begin(s, "web", "withdraw", 0, amount)
    /\ LET balance == IF connUp THEN get_account_balance(s, login[s]) ELSE Some(0) IN
       IF amount <= 0 THEN Refuse(s, "InvalidAmount", None, connUp)
       ELSE IF ~balance.found THEN Refuse(s, "TypeError", None, connUp)
       ELSE IF amount > balance.balance
            THEN Refuse(s, "InsufficientFunds", balance, connUp)
       ELSE Accept(s, "wwd_update", balance)

\* lines 259-263: UPDATE customers SET balance = balance - amount;
\* new_balance = get_account_balance(); record_transaction()
WebWithdrawUpdate(s) ==
    /\ pc[s] = "wwd_update"
    /\ ~RowLockedByOther(s, op[s].acct)
    /\ InHandler
    /\ LET rows == UpdateBalance(s, op[s].acct, -op[s].amount)
           new_balance == Selected(rows, op[s].acct)
       IN
       IF InsertFails(op[s].acct, new_balance)
       THEN Except(s, "IntegrityError", Held(s, rows, {})) /\ UNCHANGED nextId
       ELSE /\ Write(s, rows, {record_transaction(nextId, op[s].acct, "Withdrawal",
                                                  op[s].amount, new_balance, {},
                                                  "Cash withdrawal")})
            /\ Goto(s, "wwd_commit")
            /\ UNCHANGED current_balance

\* line 264: conn.commit()
WebWithdrawCommit(s) ==
    /\ pc[s] = "wwd_commit"
    /\ Commit(s, "ok")
    /\ UNCHANGED nextId
    /\ InHandler

\* ----------------------------------------------------------- web: transfer

\* app.py transfer, lines 283-305: the balance is read on a connection of its
\* own (0 when there is none), then the checks: own account, amount, funds.
WebTransfer(s, target, amount, connUp) ==
    /\ Begin(s, "web", "transfer", target, amount)
    /\ LET balance == IF connUp THEN get_account_balance(s, login[s]) ELSE Some(0) IN
       IF target = login[s] THEN Refuse(s, "SelfTransfer", None, connUp)
       ELSE IF amount <= 0 THEN Refuse(s, "InvalidAmount", None, connUp)
       ELSE IF ~balance.found THEN Refuse(s, "TypeError", None, connUp)
       ELSE IF amount > balance.balance
            THEN Refuse(s, "InsufficientFunds", balance, connUp)
       ELSE Accept(s, "wtr_recipient", balance)

\* lines 313-320: SELECT the recipient; none: the connection is closed.
WebTransferRecipient(s) ==
    /\ pc[s] = "wtr_recipient"
    /\ InHandler
    /\ UNCHANGED nextId
    /\ IF get_account_balance(s, op[s].target).found
       THEN Goto(s, "wtr_debit") /\ UNCHANGED <<tx, current_balance>>
       ELSE Rollback(s, Result("RecipientNotFound", current_balance[s], TRUE, tx[s]))

\* lines 323-332: UPDATE customers SET balance = balance - amount (sender);
\* sender_new_balance = get_account_balance(); the 'Transfer Sent' entry
WebTransferDebit(s) ==
    /\ pc[s] = "wtr_debit"
    /\ ~RowLockedByOther(s, op[s].acct)
    /\ InHandler
    /\ LET rows == UpdateBalance(s, op[s].acct, -op[s].amount)
           sender_new_balance == Selected(rows, op[s].acct)
       IN
       IF InsertFails(op[s].acct, sender_new_balance)
       THEN Except(s, "IntegrityError", Held(s, rows, {})) /\ UNCHANGED nextId
       ELSE /\ Write(s, rows, {record_transaction(nextId, op[s].acct, "Transfer Sent",
                                                  op[s].amount, sender_new_balance,
                                                  {op[s].target}, "Fund transfer to")})
            /\ Goto(s, "wtr_credit")
            /\ UNCHANGED current_balance

\* lines 335-347: UPDATE customers SET balance = balance + amount
\* (recipient); receiver_new_balance = get_account_balance(); the sender's
\* name is read (sender_info['name']); the 'Transfer Received' entry
WebTransferCredit(s) ==
    /\ pc[s] = "wtr_credit"
    /\ ~RowLockedByOther(s, op[s].target)
    /\ InHandler
    /\ LET rows == UpdateBalance(s, op[s].target, op[s].amount)
           receiver_new_balance == Selected(rows, op[s].target)
           sender_info == Selected(rows, op[s].acct)
       IN
       IF (~sender_info.found) \/ InsertFails(op[s].target, receiver_new_balance)
       THEN Except(s, "IntegrityError", Held(s, rows, {})) /\ UNCHANGED nextId
       ELSE /\ Write(s, rows, {record_transaction(nextId, op[s].target,
                                                  "Transfer Received", op[s].amount,
                                                  receiver_new_balance, {op[s].acct},
                                                  "Fund transfer from")})
            /\ Goto(s, "wtr_commit")
            /\ UNCHANGED current_balance

\* line 349: conn.commit()
WebTransferCommit(s) ==
    /\ pc[s] = "wtr_commit"
    /\ Commit(s, "ok")
    /\ UNCHANGED nextId
    /\ InHandler

\* ------------------------------------------------------------ CLI: deposit

\* bank_management.py deposit, lines 203-206: the amount check.
CliDeposit(s, amount) ==
    /\ Begin(s, "cli", "deposit", 0, amount)
    /\ IF amount <= 0
       THEN Refuse(s, "InvalidAmount", None, TRUE)
       ELSE Accept(s, "cdep_update", None)

\* lines 210-220: UPDATE customers SET balance = balance + amount;
\* new_balance = cursor.fetchone()[0] (no row: TypeError); the 'Deposit' entry
CliDepositUpdate(s) ==
    /\ pc[s] = "cdep_update"
    /\ ~RowLockedByOther(s, op[s].acct)
    /\ InHandler
    /\ LET rows == UpdateBalance(s, op[s].acct, op[s].amount)
           new_balance == Selected(rows, op[s].acct)
       IN
       IF ~new_balance.found
       THEN Uncaught(s, Held(s, rows, {})) /\ UNCHANGED nextId
       ELSE /\ Write(s, rows, {record_transaction(nextId, op[s].acct, "Deposit",
                                                  op[s].amount, new_balance, {},
                                                  "Cash deposit")})
            /\ Goto(s, "cdep_commit")
            /\ UNCHANGED current_balance

\* line 222: connection.commit()
CliDepositCommit(s) ==
    /\ pc[s] = "cdep_commit"
    /\ Commit(s, "ok")
    /\ UNCHANGED nextId
    /\ InHandler

\* ----------------------------------------------------------- CLI: withdraw

\* bank_management.py withdraw, lines 234-237: the amount check.
CliWithdraw(s, amount) ==
    /\ Begin(s, "cli", "withdraw", 0, amount)
    /\ IF amount <= 0
       THEN Refuse(s, "InvalidAmount", None, TRUE)
       ELSE Accept(s, "cwd_select", None)

\* lines 240-245: current_balance = cursor.fetchone()[0] (no row: TypeError),
\* then the funds check.
CliWithdrawSelect(s) ==
    /\ pc[s] = "cwd_select"
    /\ InHandler
    /\ UNCHANGED nextId
    /\ LET balance == get_account_balance(s, op[s].acct) IN
       IF ~balance.found THEN Uncaught(s, tx[s])
       ELSE IF op[s].amount > balance.balance
            THEN Rollback(s, Result("InsufficientFunds", balance, TRUE, tx[s]))
       ELSE /\ Goto(s, "cwd_update")
            /\ current_balance' = [current_balance EXCEPT ![s] = balance]
            /\ UNCHANGED tx

\* lines 248-258: the UPDATE; new_balance = current_balance - amount, which
\* raises TypeError; had it a value, the 'Withdrawal' entry and the commit
\* would follow.
CliWithdrawUpdate(s) ==
    /\ pc[s] = "cwd_update"
    /\ ~RowLockedByOther(s, op[s].acct)
    /\ InHandler
    /\ LET rows == UpdateBalance(s, op[s].acct, -op[s].amount)
           new_balance == DecimalMinusFloat(current_balance[s].balance, op[s].amount)
       IN
       IF ~new_balance.found
       THEN Uncaught(s, Held(s, rows, {})) /\ UNCHANGED nextId
       ELSE /\ CommitWith(s, Held(s, rows,
                               {record_transaction(nextId, op[s].acct, "Withdrawal",
                                                   op[s].amount, new_balance, {},
                                                   "Cash withdrawal")}),
                          "ok")
            /\ nextId' = nextId + 1

\* ----------------------------------------------------------- CLI: transfer

\* bank_management.py transfer, lines 270-275: the amount check (the CLI has
\* no check of the recipient against the own account).
CliTransfer(s, target, amount) ==
    /\ Begin(s, "cli", "transfer", target, amount)
    /\ IF amount <= 0
       THEN Refuse(s, "InvalidAmount", None, TRUE)
       ELSE Accept(s, "ctr_select", None)

\* lines 280-285: sender_balance = cursor.fetchone()[0] (no row: TypeError),
\* then the funds check.
CliTransferSelect(s) ==
    /\ pc[s] = "ctr_select"
    /\ InHandler
    /\ UNCHANGED nextId
    /\ LET sender_balance == get_account_balance(s, op[s].acct) IN
       IF ~sender_balance.found THEN Uncaught(s, tx[s])
       ELSE IF op[s].amount > sender_balance.balance
            THEN Rollback(s, Result("InsufficientFunds", sender_balance, TRUE, tx[s]))
       ELSE /\ Goto(s, "ctr_recipient")
            /\ current_balance' = [current_balance EXCEPT ![s] = sender_balance]
            /\ UNCHANGED tx

\* lines 288-292: SELECT the recipient.
CliTransferRecipient(s) ==
    /\ pc[s] = "ctr_recipient"
    /\ InHandler
    /\ UNCHANGED nextId
    /\ IF get_account_balance(s, op[s].target).found
       THEN Goto(s, "ctr_debit") /\ UNCHANGED <<tx, current_balance>>
       ELSE Rollback(s, Result("RecipientNotFound", current_balance[s], TRUE, tx[s]))

\* lines 295-296: UPDATE customers SET balance = balance - amount (sender)
CliTransferDebit(s) ==
    /\ pc[s] = "ctr_debit"
    /\ ~RowLockedByOther(s, op[s].acct)
    /\ tx' = [tx EXCEPT ![s].rows = UpdateBalance(s, op[s].acct, -op[s].amount)]
    /\ Goto(s, "ctr_credit")
    /\ UNCHANGED <<nextId, current_balance>>
    /\ InHandler

\* lines 299-319: UPDATE customers SET balance = balance + amount
\* (recipient); sender_new and receiver_new = cursor.fetchone()[0] (no row:
\* TypeError); the 'Transfer Sent' and 'Transfer Received' entries, which
\* leave related_account NULL.
CliTransferCredit(s) ==
    /\ pc[s] = "ctr_credit"
    /\ ~RowLockedByOther(s, op[s].target)
    /\ InHandler
    /\ LET rows == UpdateBalance(s, op[s].target, op[s].amount)
           sender_new == Selected(rows, op[s].acct)
           receiver_new == Selected(rows, op[s].target)
       IN
       IF (~sender_new.found) \/ (~receiver_new.found)
       THEN Uncaught(s, Held(s, rows, {})) /\ UNCHANGED nextId
       ELSE /\ Write(s, rows,
                     {record_transaction(nextId, op[s].acct, "Transfer Sent",
                                         op[s].amount, sender_new, {},
                                         "Transfer to A/C"),
                      record_transaction(nextId + 1, op[s].target, "Transfer Received",
                                         op[s].amount, receiver_new, {},
                                         "Transfer from A/C")})
            /\ Goto(s, "ctr_commit")
            /\ UNCHANGED current_balance

\* line 321: connection.commit()
CliTransferCommit(s) ==
    /\ pc[s] = "ctr_commit"
    /\ Commit(s, "ok")
    /\ UNCHANGED nextId
    /\ InHandler

\* ------------------------------------------------------------- reading
\* The balance is asked for; nothing is written and res[s].read is the answer.

\* app.py withdraw and transfer, lines 237-240 and 283-286, for a GET: the
\* balance the page shows is read on a connection of its own, and is 0 when
\* there is none.
WebBalance(s, connUp) ==
    /\ Begin(s, "web", "balance", 0, 0)
    /\ Refuse(s, "ok",
              IF connUp THEN get_account_balance(s, login[s]) ELSE Some(0), connUp)

\* bank_management.py check_balance, lines 355-366: a SELECT on the connection
\* of the menu, which begins a transaction unless one is open and leaves it
\* open; READ COMMITTED shows it the rows committed so far.
check_balance(s) ==
    /\ Begin(s, "cli", "balance", 0, 0)
    /\ LET balance == get_account_balance(s, login[s]) IN
       res' = [res EXCEPT ![s] =
                  [outcome |-> IF balance.found THEN "ok" ELSE "NotFound",
                   read |-> balance, connected |-> TRUE, held |-> tx[s],
                   pre |-> customers, post |-> customers, entries |-> {}, bound |-> {}]]
    /\ began' = [began EXCEPT ![s] = IF @ # 0 THEN @ ELSE now]
    /\ UNCHANGED <<customers, transactions, nextId, pc, tx, current_balance>>

\* ----------------------------------------------------------- closing

NoClosing == [account_number |-> 0, confirm |-> "", call |-> 0]

\* bank_management.py delete_account, line 181: the answer, lowered, is 'yes'.
ConfirmedAlways(confirm) == TRUE
Confirmed(confirm) == confirm = "yes"

\* FOREIGN KEY (account_number) REFERENCES customers ON DELETE CASCADE
\* (init_db.py lines 48 and 60): the rows of a table that are left when
\* account a is deleted. related_account is no foreign key.
OnDeleteNoAction(rows, a) == rows
OnDeleteCascadeRelated(rows, a) ==
    {r \in rows : r.account_number # a /\ r.related_account # {a}}
OnDeleteCascade(rows, a) == {r \in rows : r.account_number # a}

\* bank_management.py delete_account, lines 178-192: unless the answer is
\* 'yes' nothing is done; else DELETE FROM customers (it waits for the row's
\* lock) and the commit, and the account's transactions and users go with it.
delete_account(a, confirm) ==
    /\ a \in DOMAIN customers
    /\ started' = started + 1
    /\ closing' = [account_number |-> a, confirm |-> confirm, call |-> started + 1]
    /\ IF Confirmed(confirm)
       THEN /\ \A s \in AllSessions : a \notin DOMAIN tx[s].rows
            /\ customers' = [b \in DOMAIN customers \ {a} |-> customers[b]]
            /\ email' = [b \in DOMAIN email \ {a} |-> email[b]]
            /\ details' = [b \in DOMAIN details \ {a} |-> details[b]]
            /\ transactions' = OnDeleteCascade(transactions, a)
            /\ users' = {u \in users : u.account_number # {a}}
       ELSE UNCHANGED <<customers, email, details, transactions, users>>
    /\ UNCHANGED <<nextId, pc, op, current_balance, tx, res, login, nextAccount, listing, now, began>>

\* ----------------------------------------------------------- opening

\* The columns of a customers row beside balance and email, as the row is
\* inserted: of name, phone and address only whether they still are what was
\* given at the opening (n0, p0, a0) is kept.
Holder(account_type) ==
    [account_type |-> account_type, name |-> "n0", phone |-> "p0", address |-> "a0"]

\* A row of users: the login name and the account it is bound to ({}: NULL,
\* the default admin of init_db.py line 70).
User(username, account_number) ==
    [username |-> username, account_number |-> account_number]

\* app.py register, line 122, and bank_management.py create_account, line 76:
\* initial_deposit < 500, on the float as it was typed.
BelowMinimumRounded(initial_deposit) == Numeric2(initial_deposit) < 500 * Rupee
BelowMinimum(initial_deposit) == initial_deposit < 500 * Rupee

\* CHECK (account_type IN ('Savings', 'Current')), init_db.py line 31.
AccountTypes == {"Savings", "Current"}

\* A new registration of session s: nobody is logged in yet.
BeginOpen(s, entry, f, initial_deposit) ==
    /\ pc[s] = "idle"
    /\ started' = started + 1
    /\ op' = [op EXCEPT ![s] =
                 [Request(entry, "open", 0, 0, initial_deposit) EXCEPT !.form = f]]
    /\ UNCHANGED <<login, users, email, details, nextAccount, closing, listing, now>>

\* Session s has inserted a customers row it has not committed yet.
Inserting(s) == op[s].kind = "open" /\ DOMAIN tx[s].rows # {}

\* account_number SERIAL PRIMARY KEY (init_db.py line 24): the number a new
\* row gets is the next value of the sequence, whatever numbers are in use.
SerialLowestFree(next, used) == CHOOSE n \in 1..next : n \notin used /\ \A m \in 1..(n - 1) : m \in used
Serial(next, used) == next

\* INSERT INTO customers ... RETURNING account_number and the INSERT of the
\* 'Deposit' entry with balance_after = initial_deposit. The sequence moves
\* on whether the row is accepted or not; an email another transaction has
\* inserted and not committed makes the INSERT wait; a committed one, or an
\* account_type outside the CHECK, raises an error.
InsertAccount(s, next, description) ==
    LET f == op[s].form
        account_number ==
            Serial(nextAccount,
                   DOMAIN customers \cup UNION {DOMAIN tx[t].rows : t \in AllSessions})
        initial_deposit == op[s].amount
    IN
    /\ \A t \in AllSessions \ {s} : ~(Inserting(t) /\ op[t].form.email = f.email)
    /\ nextAccount' = nextAccount + 1
    /\ UNCHANGED <<op, login, started, users, email, details, closing, listing, now>>
    /\ IF f.account_type \notin AccountTypes
          \/ f.email \in {email[b] : b \in DOMAIN email}
       THEN Except(s, "IntegrityError", tx[s]) /\ UNCHANGED nextId
       ELSE /\ Write(s, (account_number :> Numeric2(initial_deposit)),
                     {record_transaction(nextId, account_number, "Deposit",
                                         initial_deposit, Some(initial_deposit), {},
                                         description)})
            /\ Goto(s, next)
            /\ UNCHANGED current_balance

\* INSERT INTO users (username, password, role, account_number): username is
\* UNIQUE, with the same waiting and the same error.
InsertUser(s, committing, next) ==
    /\ \A t \in AllSessions \ {s} :
          ~(pc[t] \in committing /\ op[t].form.username = op[s].form.username)
    /\ InHandler
    /\ UNCHANGED nextId
    /\ IF op[s].form.username \in {u.username : u \in users}
       THEN Except(s, "IntegrityError", tx[s])
       ELSE Goto(s, next) /\ UNCHANGED <<tx, current_balance>>

\* The commit of a registration: the account, its entry and its login
\* become visible to the other sessions in one step.
CommitAccount(s) ==
    LET account_number == CHOOSE b \in DOMAIN tx[s].rows : TRUE
        u == User(op[s].form.username, {account_number})
    IN
    /\ customers' = tx[s].rows @@ customers
    /\ email' = (account_number :> op[s].form.email) @@ email
    /\ details' = (account_number :> Holder(op[s].form.account_type)) @@ details
    /\ transactions' = transactions \cup tx[s].entries
    /\ users' = users \cup {u}
    /\ ReturnWith(s, Result("ok", None, TRUE, tx[s]), {u})
    /\ UNCHANGED <<nextId, op, login, started, nextAccount, closing, listing, now>>

\* app.py register, lines 111-124: the form and the minimum deposit.
WebRegister(s, f, initial_deposit) ==
    /\ BeginOpen(s, "web", f, initial_deposit)
    /\ IF BelowMinimum(initial_deposit)
       THEN Refuse(s, "InvalidAmount", None, TRUE)
       ELSE Accept(s, "wreg_customer", None)

\* lines 131-141: the customers row and record_transaction()
WebRegisterCustomer(s) ==
    /\ pc[s] = "wreg_customer"
    /\ InsertAccount(s, "wreg_user", "Initial deposit at account opening")

\* lines 143-145: the users row
WebRegisterUser(s) ==
    /\ pc[s] = "wreg_user"
    /\ InsertUser(s, {"wreg_commit", "creg_commit"}, "wreg_commit")

\* line 147: conn.commit()
WebRegisterCommit(s) ==
    /\ pc[s] = "wreg_commit"
    /\ CommitAccount(s)

\* bank_management.py create_account, lines 64-78: the account type, then
\* the minimum deposit.
create_account(s, f, initial_deposit) ==
    /\ BeginOpen(s, "cli", f, initial_deposit)
    /\ IF f.account_type \notin AccountTypes
       THEN Refuse(s, "InvalidAccountType", None, TRUE)
       ELSE IF BelowMinimum(initial_deposit)
            THEN Refuse(s, "InvalidAmount", None, TRUE)
       ELSE Accept(s, "creg_customer", None)

\* lines 83-96: the customers row and the 'Initial deposit' entry
CliCreateCustomer(s) ==
    /\ pc[s] = "creg_customer"
    /\ InsertAccount(s, "creg_user", "Initial deposit")

\* lines 99-104: the username is asked for and the users row inserted
CliCreateUser(s) ==
    /\ pc[s] = "creg_user"
    /\ InsertUser(s, {"wreg_commit", "creg_commit"}, "creg_commit")

\* line 106: connection.commit()
CliCreateCommit(s) ==
    /\ pc[s] = "creg_commit"
    /\ CommitAccount(s)

\* ----------------------------------------------------------- listing
\* init_db.py gives every entry transaction_date TIMESTAMP DEFAULT CURRENT_TIMESTAMP, and
\* no INSERT of the program names the column.  CURRENT_TIMESTAMP is the time the current
\* transaction began, so the entries one transaction writes carry the same
\* transaction_date.  listing.rows keeps, for each entry, the columns the listing
\* queries read; listing.now is the clock and listing.next the next transaction_id.

DashboardLimit == 5
HistoryLimit == 20

Row(id, a, date) == [transaction_id |-> id, account_number |-> a, transaction_date |-> date]

\* Nothing listed yet; the opening entries of accounts 1 and 2 were written one after
\* the other.
NoListing ==
    [rows |-> {Row(1, 1, 1), Row(2, 2, 2)}, next |-> 3, now |-> 2,
     account_number |-> 0, limit |-> {}, result |-> <<>>]

\* One transaction commits n entries of account a: one for a deposit, a withdrawal or
\* one side of a transfer, two for the CLI's transfer whose target_acc is the own account_number
\* (it inserts 'Transfer Sent' and 'Transfer Received' with the same account_number).
RecordEntries(a, n) ==
    /\ Cardinality(listing.rows) + n <= MaxEntries
    /\ listing' = [listing EXCEPT
                     !.rows = @ \cup {Row(listing.next + i, a, listing.now + 1) : i \in 0..(n - 1)},
                     !.next = @ + n,
                     !.now = @ + 1,
                     !.account_number = 0,
                     !.limit = {},
                     !.result = <<>>]
    /\ UNCHANGED <<customers, transactions, nextId, pc, op, current_balance, tx, res, login,
                   started, users, email, details, nextAccount, closing, now, began>>

\* ORDER BY transaction_date DESC: every order of the rows in which no row comes before
\* a row of a later transaction_date.  Rows of equal transaction_date come in whatever
\* order the plan produces.
RECURSIVE OrderByDateDesc(_)
OrderByDateDesc(S) ==
    IF S = {}
    THEN {<<>>}
    ELSE UNION {{<<r>> \o rest : rest \in OrderByDateDesc(S \ {r})} :
                r \in {x \in S : \A y \in S : y.transaction_date <= x.transaction_date}}

\* LIMIT k, or no LIMIT clause when limit is {}.
Limit(rows, limit) ==
    IF limit = {}
    THEN rows
    ELSE LET k == CHOOSE n \in limit : TRUE
         IN  SubSeq(rows, 1, IF Len(rows) < k THEN Len(rows) ELSE k)

\* SELECT * FROM transactions WHERE account_number = a ORDER BY transaction_date DESC
Select(a, limit) ==
    /\ \E rows \in OrderByDateDesc({r \in listing.rows : r.account_number = a}) :
          listing' = [listing EXCEPT
                        !.account_number = a,
                        !.limit = limit,
                        !.result = Limit(rows, limit)]
    /\ UNCHANGED <<customers, transactions, nextId, pc, op, current_balance, tx, res, login,
                   started, users, email, details, nextAccount, closing, now, began>>

\* app.py dashboard(): recent_transactions, LIMIT 5.
dashboard(a) == Select(a, {DashboardLimit})

\* app.py transactions(): all_transactions, no LIMIT.
WebTransactions(a) == Select(a, {})

\* bank_management.py view_transactions(): LIMIT 20.
view_transactions(a) == Select(a, {HistoryLimit})

\* ------------------------------------------------------------------ faults

\* get_db_connection() returns None where the handler opens the connection
\* it writes on: nothing is done.
WebNoConnection(s) ==
    /\ pc[s] \in {"wdep_update", "wwd_update", "wtr_recipient", "wreg_customer"}
    /\ Rollback(s, Result("NoConnection", current_balance[s], FALSE, tx[s]))
    /\ UNCHANGED nextId
    /\ InHandler

\* A statement or the commit raises psycopg2.Error (connection lost, timeout,
\* deadlock detected): the handler's except clause runs.
StorageError(s) ==
    /\ pc[s] # "idle"
    /\ Except(s, "StorageError", tx[s])
    /\ UNCHANGED nextId
    /\ InHandler

\* The row locks session s holds, and the row whose lock its next statement,
\* an UPDATE, needs.
Holds(s) == DOMAIN tx[s].rows
Wants(s) ==
    IF pc[s] \in {"wdep_update", "wwd_update", "cdep_update", "cwd_update",
                  "wtr_debit", "ctr_debit", "wprof_update", "cupd_update"}
    THEN {op[s].acct}
    ELSE IF pc[s] \in {"wtr_credit", "ctr_credit"} THEN {op[s].target}
    ELSE {}

\* Session s waits for a row lock that session t holds.
Blocked(s, t) == s # t /\ Wants(s) \cap Holds(t) # {} /\ Wants(s) \cap Holds(s) = {}

\* Session s is one of two or three sessions that wait for each other.
InCycleNever(s) == FALSE
InCycle(s) ==
    \E t \in AllSessions :
        /\ Blocked(s, t)
        /\ Blocked(t, s) \/ \E u \in AllSessions : Blocked(t, u) /\ Blocked(u, s)

\* The server finds the sessions waiting for each other and ends the
\* statement of one of them with an error, a psycopg2.Error: the handler's
\* except clause rolls back.
DeadlockDetected(s) ==
    /\ InCycle(s)
    /\ Except(s, "DeadlockDetected", tx[s])
    /\ UNCHANGED nextId
    /\ InHandler

\* The clock moves on between two statements.
Tick ==
    /\ now < MaxTime
    /\ now' = now + 1
    /\ UNCHANGED <<customers, transactions, nextId, pc, op, current_balance, tx, res, login,
                   started, users, email, details, nextAccount, closing, listing, began>>

\* ---------------------------------------------------------- the details

\* A request of session s to change the details of the account it is logged
\* in to, with the fields of the form as they were typed ("": left blank).
BeginUpdate(s, entry, kind, f) ==
    /\ pc[s] = "idle"
    /\ started' = started + 1
    /\ op' = [op EXCEPT ![s] = [Request(entry, kind, login[s], 0, 0) EXCEPT !.form = f]]
    /\ UNCHANGED <<login, users, email, details, nextAccount, closing, listing, now>>

\* app.py line 398: SET phone = %s, address = %s, with the fields as they
\* were posted, blank or not.
ProfileSetType(d, f) == [d EXCEPT !.phone = f.phone, !.address = f.address, !.account_type = "Current"]
ProfileSet(d, f) == [d EXCEPT !.phone = f.phone, !.address = f.address]

\* bank_management.py lines 151-162 and 169: SET names the fields that were
\* not left blank (email is a column of its own here).
UpdateSet(d, f) ==
    [d EXCEPT !.name = IF f.name # "" THEN f.name ELSE @,
              !.phone = IF f.phone # "" THEN f.phone ELSE @,
              !.address = IF f.address # "" THEN f.address ELSE @]

\* UPDATE customers SET ... WHERE account_number = a: the statement waits for
\* the lock of the row, and for a transaction that has written the same new
\* email and has not ended; it writes a new version of the row, with the
\* balance the row has, or raises the error of UNIQUE (email).
UpdateDetails(s, next) ==
    LET a == op[s].acct
        f == op[s].form
    IN
    /\ ~RowLockedByOther(s, a)
    /\ \A t \in AllSessions \ {s} :
          ~(f.email # "" /\ DOMAIN tx[t].rows # {} /\ op[t].form.email = f.email)
    /\ InHandler
    /\ IF f.email # "" /\ f.email \in {email[b] : b \in DOMAIN email \ {a}}
       THEN Except(s, "IntegrityError", tx[s]) /\ UNCHANGED nextId
       ELSE /\ Write(s, IF a \in DOMAIN customers
                        THEN (a :> View(s)[a]) @@ tx[s].rows
                        ELSE tx[s].rows, {})
            /\ Goto(s, next)
            /\ UNCHANGED current_balance

\* The commit of the UPDATE: the new details become visible.
CommitDetails(s, set) ==
    LET a == op[s].acct
        f == op[s].form
    IN
    /\ Commit(s, "ok")
    /\ details' = IF a \in DOMAIN tx[s].rows THEN [details EXCEPT ![a] = set] ELSE details
    /\ email' = IF a \in DOMAIN tx[s].rows /\ f.email # ""
                THEN [email EXCEPT ![a] = f.email]
                ELSE email
    /\ UNCHANGED <<nextId, op, login, started, users, nextAccount, closing, listing, now>>

\* app.py profile, lines 391-395, POST: the form, and the connection.
profile(s, phone, address, connUp) ==
    /\ BeginUpdate(s, "web", "profile", [NoForm EXCEPT !.phone = phone, !.address = address])
    /\ IF connUp
       THEN Accept(s, "wprof_update", None)
       ELSE Refuse(s, "NoConnection", None, FALSE)

\* lines 397-399: the UPDATE
WebProfileUpdate(s) ==
    /\ pc[s] = "wprof_update"
    /\ UpdateDetails(s, "wprof_commit")

\* line 400: conn.commit()
WebProfileCommit(s) ==
    /\ pc[s] = "wprof_commit"
    /\ CommitDetails(s, ProfileSet(details[op[s].acct], op[s].form))

\* bank_management.py update_account, lines 143-166: the four inputs; with
\* all of them blank the function returns before any statement.
update_account(s, f) ==
    /\ BeginUpdate(s, "cli", "update", f)
    /\ IF f.name = "" /\ f.email = "" /\ f.phone = "" /\ f.address = ""
       THEN Refuse(s, "NoChanges", None, TRUE)
       ELSE Accept(s, "cupd_update", None)

\* lines 168-170: the UPDATE
CliUpdate(s) ==
    /\ pc[s] = "cupd_update"
    /\ UpdateDetails(s, "cupd_commit")

\* line 171: connection.commit()
CliUpdateCommit(s) ==
    /\ pc[s] = "cupd_commit"
    /\ CommitDetails(s, UpdateSet(details[op[s].acct], op[s].form))

\* --------------------------------------------------------------- the system

OpeningEntry(a, id, amount) ==
    Inserted(record_transaction(id, a, "Deposit", amount, Some(amount), {},
                                "Initial deposit at account opening"), 0)

\* Two accounts opened through register with 500.00 and 1000.00, and no
\* request issued yet. Time stands still at 0 in a behaviour that does not
\* observe it; where it is observed the clock starts at 1.
Idle ==
    /\ pc = [s \in AllSessions |-> "idle"]
    /\ op = [s \in AllSessions |-> NoOp]
    /\ current_balance = [s \in AllSessions |-> None]
    /\ tx = [s \in AllSessions |-> EmptyTx]
    /\ res = [s \in AllSessions |-> NoRes]
    /\ started = 0
    /\ closing = NoClosing
    /\ listing = NoListing
    /\ began = [s \in AllSessions |-> 0]

Opened ==
    /\ customers = (1 :> 500 * Rupee) @@ (2 :> 1000 * Rupee)
    /\ transactions = {OpeningEntry(1, 1, 500 * Rupee), OpeningEntry(2, 2, 1000 * Rupee)}
    /\ nextId = 3
    /\ users = {User("admin", {}), User("u1", {1}), User("u2", {2})}
    /\ email = (1 :> "e1") @@ (2 :> "e2")
    /\ details = [a \in Accounts |-> Holder("Savings")]
    /\ nextAccount = 3
    /\ Idle

\* The first session is logged in to account 1, the second to either account.
Init ==
    /\ Opened
    /\ now = 0
    /\ login \in {l \in [AllSessions -> Accounts] : l["s1"] = 1 /\ l["s3"] = 2}

Next ==
    \/ \E s \in Sessions, amount \in Amounts : Budget /\ WebDeposit(s, amount)
    \/ \E s \in Sessions : WebDepositUpdate(s)
    \/ \E s \in Sessions : WebDepositCommit(s)
    \/ \E s \in Sessions, amount \in Amounts, connUp \in BOOLEAN :
          Budget /\ WebWithdraw(s, amount, connUp)
    \/ \E s \in Sessions : WebWithdrawUpdate(s)
    \/ \E s \in Sessions : WebWithdrawCommit(s)
    \/ \E s \in Sessions, target \in Accounts, amount \in Amounts, connUp \in BOOLEAN :
          Budget /\ WebTransfer(s, target, amount, connUp)
    \/ \E s \in Sessions : WebTransferRecipient(s)
    \/ \E s \in Sessions : WebTransferDebit(s)
    \/ \E s \in Sessions : WebTransferCredit(s)
    \/ \E s \in Sessions : WebTransferCommit(s)
    \/ \E s \in Sessions, amount \in Amounts : Budget /\ CliDeposit(s, amount)
    \/ \E s \in Sessions : CliDepositUpdate(s)
    \/ \E s \in Sessions : CliDepositCommit(s)
    \/ \E s \in Sessions, amount \in Amounts : Budget /\ CliWithdraw(s, amount)
    \/ \E s \in Sessions : CliWithdrawSelect(s)
    \/ \E s \in Sessions : CliWithdrawUpdate(s)
    \/ \E s \in Sessions, target \in Accounts, amount \in Amounts :
          Budget /\ CliTransfer(s, target, amount)
    \/ \E s \in Sessions : CliTransferSelect(s)
    \/ \E s \in Sessions : CliTransferRecipient(s)
    \/ \E s \in Sessions : CliTransferDebit(s)
    \/ \E s \in Sessions : CliTransferCredit(s)
    \/ \E s \in Sessions : CliTransferCommit(s)
    \/ \E a \in Accounts : Budget /\ delete_account(a, "yes")
    \/ \E s \in Sessions : WebNoConnection(s)
    \/ \E s \in Sessions : StorageError(s)

Spec == Init /\ [][Next]_vars

\* N = 3 withdrawals of A = 500.00 issued at once by three sessions logged in
\* to account 2, whose balance is 1000.00 = (N - 1) * A; no fault occurs.
InitC3 ==
    /\ Opened
    /\ now = 0
    /\ login = [s \in AllSessions |-> 2]

NextC3 ==
    \/ \E s \in AllSessions : op[s] = NoOp /\ WebWithdraw(s, 500 * Rupee, TRUE)
    \/ \E s \in AllSessions : WebWithdrawUpdate(s)
    \/ \E s \in AllSessions : WebWithdrawCommit(s)
    \/ \E s \in AllSessions : op[s] = NoOp /\ CliWithdraw(s, 500 * Rupee)
    \/ \E s \in AllSessions : CliWithdrawSelect(s)
    \/ \E s \in AllSessions : CliWithdrawUpdate(s)

SpecC3 == InitC3 /\ [][NextC3]_vars

\* One session, logged in to account 1, issuing its requests one after the
\* other with amounts of whole rupees; no fault occurs and no account is closed.
WholeAmounts == {0, 500 * Rupee}

InitSeq ==
    /\ Opened
    /\ now = 0
    /\ login = [s \in AllSessions |-> IF s = "s1" THEN 1 ELSE 2]

NextSeq ==
    \/ \E amount \in WholeAmounts : Budget /\ WebDeposit("s1", amount)
    \/ WebDepositUpdate("s1")
    \/ WebDepositCommit("s1")
    \/ \E amount \in WholeAmounts : Budget /\ WebWithdraw("s1", amount, TRUE)
    \/ WebWithdrawUpdate("s1")
    \/ WebWithdrawCommit("s1")
    \/ \E target \in Accounts, amount \in WholeAmounts :
          Budget /\ WebTransfer("s1", target, amount, TRUE)
    \/ WebTransferRecipient("s1")
    \/ WebTransferDebit("s1")
    \/ WebTransferCredit("s1")
    \/ WebTransferCommit("s1")
    \/ \E amount \in WholeAmounts : Budget /\ CliDeposit("s1", amount)
    \/ CliDepositUpdate("s1")
    \/ CliDepositCommit("s1")
    \/ \E amount \in WholeAmounts : Budget /\ CliWithdraw("s1", amount)
    \/ CliWithdrawSelect("s1")
    \/ CliWithdrawUpdate("s1")
    \/ \E target \in Accounts, amount \in WholeAmounts :
          Budget /\ CliTransfer("s1", target, amount)
    \/ CliTransferSelect("s1")
    \/ CliTransferRecipient("s1")
    \/ CliTransferDebit("s1")
    \/ CliTransferCredit("s1")
    \/ CliTransferCommit("s1")

SpecSeq == InitSeq /\ [][NextSeq]_vars

\* One session, logged in to account 1 with 500.00, issuing transfers one
\* after the other: to itself, to account 2 and to account 3, which was never
\* opened, of nothing, of all it has and of more than it has.
Recipients == Accounts \cup {3}
TransferAmounts == {0, 500 * Rupee, 600 * Rupee}

NextTransfer ==
    \/ \E target \in Recipients, amount \in TransferAmounts :
          Budget /\ WebTransfer("s1", target, amount, TRUE)
    \/ WebTransferRecipient("s1")
    \/ WebTransferDebit("s1")
    \/ WebTransferCredit("s1")
    \/ WebTransferCommit("s1")
    \/ \E target \in Recipients, amount \in TransferAmounts :
          Budget /\ CliTransfer("s1", target, amount)
    \/ CliTransferSelect("s1")
    \/ CliTransferRecipient("s1")
    \/ CliTransferDebit("s1")
    \/ CliTransferCredit("s1")
    \/ CliTransferCommit("s1")

SpecTransfer == InitSeq /\ [][NextTransfer]_vars

\* Two visitors open accounts at the same time, through the web form and
\* through the CLI: with a fresh or a taken email, a fresh or a taken
\* username, an account type the table refuses, and a deposit just below,
\* at and just above the minimum; statements may fail.
NewForm == [NoForm EXCEPT !.email = "e3", !.username = "u3", !.account_type = "Savings"]
Forms ==
    {NewForm, [NewForm EXCEPT !.email = "e2"], [NewForm EXCEPT !.username = "u2"],
     [NewForm EXCEPT !.account_type = "Gold"]}
Deposits == {500 * Rupee - HalfCent, 500 * Rupee, 500 * Rupee + HalfCent}

NextOpen ==
    \/ \E s \in Sessions, f \in Forms, initial_deposit \in Deposits :
          Budget /\ WebRegister(s, f, initial_deposit)
    \/ \E s \in Sessions : WebRegisterCustomer(s)
    \/ \E s \in Sessions : WebRegisterUser(s)
    \/ \E s \in Sessions : WebRegisterCommit(s)
    \/ \E s \in Sessions, f \in Forms, initial_deposit \in Deposits :
          Budget /\ create_account(s, f, initial_deposit)
    \/ \E s \in Sessions : CliCreateCustomer(s)
    \/ \E s \in Sessions : CliCreateUser(s)
    \/ \E s \in Sessions : CliCreateCommit(s)
    \/ \E s \in Sessions : WebNoConnection(s)
    \/ \E s \in Sessions : StorageError(s)

SpecOpen == InitSeq /\ [][NextOpen]_vars

\* The customers of accounts 1 and 2 transfer to each other through the web
\* while accounts are being closed at the CLI, with either answer to the
\* question.
Answers == {"yes", "no"}

NextClose ==
    \/ \E a \in Accounts, confirm \in Answers : Budget /\ delete_account(a, confirm)
    \/ \E s \in Sessions, target \in Accounts, amount \in WholeAmounts :
          Budget /\ WebTransfer(s, target, amount, TRUE)
    \/ \E s \in Sessions : WebTransferRecipient(s)
    \/ \E s \in Sessions : WebTransferDebit(s)
    \/ \E s \in Sessions : WebTransferCredit(s)
    \/ \E s \in Sessions : WebTransferCommit(s)

SpecClose == InitSeq /\ [][NextClose]_vars

\* Accounts are opened, as in SpecOpen, while accounts are closed at the CLI.
NextNumbers ==
    \/ NextOpen
    \/ \E a \in Recipients : Budget /\ delete_account(a, "yes")

SpecNumbers == InitSeq /\ [][NextNumbers]_vars

\* Two customers, of accounts 1 and 2, deposit, withdraw and transfer to each
\* other through the web and at the CLI. No connection is lost; every
\* statement that can run does run in the end, and so does the server's
\* search for sessions that wait for each other.
LiveAmounts == {500 * Rupee}

StepLive ==
    \E s \in Sessions :
        \/ WebDepositUpdate(s)
        \/ WebDepositCommit(s)
        \/ WebWithdrawUpdate(s)
        \/ WebWithdrawCommit(s)
        \/ WebTransferRecipient(s)
        \/ WebTransferDebit(s)
        \/ WebTransferCredit(s)
        \/ WebTransferCommit(s)
        \/ CliDepositUpdate(s)
        \/ CliDepositCommit(s)
        \/ CliWithdrawSelect(s)
        \/ CliWithdrawUpdate(s)
        \/ CliTransferSelect(s)
        \/ CliTransferRecipient(s)
        \/ CliTransferDebit(s)
        \/ CliTransferCredit(s)
        \/ CliTransferCommit(s)
        \/ DeadlockDetected(s)

NextLive ==
    \/ \E s \in Sessions, amount \in LiveAmounts : Budget /\ WebDeposit(s, amount)
    \/ \E s \in Sessions, amount \in LiveAmounts : Budget /\ WebWithdraw(s, amount, TRUE)
    \/ \E s \in Sessions, target \in Accounts, amount \in LiveAmounts :
          Budget /\ WebTransfer(s, target, amount, TRUE)
    \/ \E s \in Sessions, amount \in LiveAmounts : Budget /\ CliDeposit(s, amount)
    \/ \E s \in Sessions, amount \in LiveAmounts : Budget /\ CliWithdraw(s, amount)
    \/ \E s \in Sessions, target \in Accounts, amount \in LiveAmounts :
          Budget /\ CliTransfer(s, target, amount)
    \/ StepLive

SpecLive == InitSeq /\ [][NextLive]_vars /\ WF_vars(StepLive)

\* The two customers change their details through the web and at the CLI,
\* leaving fields blank or not, with a fresh email or the other customer's,
\* while they deposit through the web and transfer at the CLI; statements
\* may fail.
Fields == {"", "x1"}
UpdateForms ==
    {NoForm, [NoForm EXCEPT !.name = "x1"], [NoForm EXCEPT !.email = "e2"],
     [NoForm EXCEPT !.email = "e9", !.name = "x1"],
     [NoForm EXCEPT !.phone = "x1", !.address = "x1"]}

NextProfile ==
    \/ \E s \in Sessions, phone \in Fields, address \in Fields, connUp \in BOOLEAN :
          Budget /\ profile(s, phone, address, connUp)
    \/ \E s \in Sessions : WebProfileUpdate(s)
    \/ \E s \in Sessions : WebProfileCommit(s)
    \/ \E s \in Sessions, f \in UpdateForms : Budget /\ update_account(s, f)
    \/ \E s \in Sessions : CliUpdate(s)
    \/ \E s \in Sessions : CliUpdateCommit(s)
    \/ \E s \in Sessions, amount \in LiveAmounts : Budget /\ WebDeposit(s, amount)
    \/ \E s \in Sessions : WebDepositUpdate(s)
    \/ \E s \in Sessions : WebDepositCommit(s)
    \/ \E s \in Sessions, target \in Accounts, amount \in LiveAmounts :
          Budget /\ CliTransfer(s, target, amount)
    \/ \E s \in Sessions : CliTransferSelect(s)
    \/ \E s \in Sessions : CliTransferRecipient(s)
    \/ \E s \in Sessions : CliTransferDebit(s)
    \/ \E s \in Sessions : CliTransferCredit(s)
    \/ \E s \in Sessions : CliTransferCommit(s)
    \/ \E s \in Sessions : DeadlockDetected(s)
    \/ \E s \in Sessions : StorageError(s)

SpecProfile == InitSeq /\ [][NextProfile]_vars

\* One customer, of account 1, moves amounts of a quarter of 0.01, of half of
\* 0.01 and of 0.01 through the web and at the CLI: float(request.form['amount'])
\* and float(input()) take any number of decimals.
SmallAmounts == {Cent \div 4, HalfCent, Cent}

NextSmall ==
    \/ \E amount \in SmallAmounts : Budget /\ WebDeposit("s1", amount)
    \/ WebDepositUpdate("s1")
    \/ WebDepositCommit("s1")
    \/ \E amount \in SmallAmounts : Budget /\ WebWithdraw("s1", amount, TRUE)
    \/ WebWithdrawUpdate("s1")
    \/ WebWithdrawCommit("s1")
    \/ \E amount \in SmallAmounts : Budget /\ WebTransfer("s1", 2, amount, TRUE)
    \/ WebTransferRecipient("s1")
    \/ WebTransferDebit("s1")
    \/ WebTransferCredit("s1")
    \/ WebTransferCommit("s1")
    \/ \E amount \in SmallAmounts : Budget /\ CliDeposit("s1", amount)
    \/ CliDepositUpdate("s1")
    \/ CliDepositCommit("s1")
    \/ \E amount \in SmallAmounts : Budget /\ CliTransfer("s1", 2, amount)
    \/ CliTransferSelect("s1")
    \/ CliTransferRecipient("s1")
    \/ CliTransferDebit("s1")
    \/ CliTransferCredit("s1")
    \/ CliTransferCommit("s1")

SpecSmall == InitSeq /\ [][NextSmall]_vars

\* Two customers ask for their balances, through the web and at the CLI,
\* between and during deposits; the database may be out of reach.
ReadAmounts == {500 * Rupee}

NextRead ==
    \/ \E s \in Sessions, connUp \in BOOLEAN : Budget /\ WebBalance(s, connUp)
    \/ \E s \in Sessions : Budget /\ check_balance(s)
    \/ \E s \in Sessions, amount \in ReadAmounts : Budget /\ WebDeposit(s, amount)
    \/ \E s \in Sessions : WebDepositUpdate(s)
    \/ \E s \in Sessions : WebDepositCommit(s)
    \/ \E s \in Sessions, amount \in ReadAmounts : Budget /\ CliDeposit(s, amount)
    \/ \E s \in Sessions : CliDepositUpdate(s)
    \/ \E s \in Sessions : CliDepositCommit(s)
    \/ \E s \in Sessions : WebNoConnection(s)

SpecRead == Init /\ [][NextRead]_vars

\* The same request is made twice from the same state, once through the web
\* and once at the CLI: accounts 1 to 4 were opened with 500.00 each; the
\* customer of account 1 uses the web, with account 3 as the other account,
\* and the customer of account 2 uses the CLI, with account 4 as the other
\* account. Account 5 was never opened. The two requests touch no common row.
TwinAccounts == 1..4
TwinAmounts == {0, 500 * Rupee, 600 * Rupee}

\* The account at the CLI that stands for account a of the web.
Twin(a) == IF a \in {1, 3} THEN a + 1 ELSE a

InitTwin ==
    /\ customers = [a \in TwinAccounts |-> 500 * Rupee]
    /\ transactions = {OpeningEntry(a, a, 500 * Rupee) : a \in TwinAccounts}
    /\ nextId = 5
    /\ users = {User("admin", {})}
                  \cup {User(<<"u1", "u2", "u3", "u4">>[a], {a}) : a \in TwinAccounts}
    /\ email = [a \in TwinAccounts |-> <<"e1", "e2", "e3", "e4">>[a]]
    /\ details = [a \in TwinAccounts |-> Holder("Savings")]
    /\ nextAccount = 5
    /\ Idle
    /\ now = 0
    /\ login = [s \in AllSessions |-> IF s = "s1" THEN 1 ELSE 2]

NextTwin ==
    \/ \E amount \in TwinAmounts : op["s1"] = NoOp /\ WebDeposit("s1", amount)
    \/ WebDepositUpdate("s1")
    \/ WebDepositCommit("s1")
    \/ \E amount \in TwinAmounts : op["s1"] = NoOp /\ WebWithdraw("s1", amount, TRUE)
    \/ WebWithdrawUpdate("s1")
    \/ WebWithdrawCommit("s1")
    \/ \E target \in {1, 3, 5}, amount \in TwinAmounts :
          op["s1"] = NoOp /\ WebTransfer("s1", target, amount, TRUE)
    \/ WebTransferRecipient("s1")
    \/ WebTransferDebit("s1")
    \/ WebTransferCredit("s1")
    \/ WebTransferCommit("s1")
    \/ \E amount \in TwinAmounts : op["s2"] = NoOp /\ CliDeposit("s2", amount)
    \/ CliDepositUpdate("s2")
    \/ CliDepositCommit("s2")
    \/ \E amount \in TwinAmounts : op["s2"] = NoOp /\ CliWithdraw("s2", amount)
    \/ CliWithdrawSelect("s2")
    \/ CliWithdrawUpdate("s2")
    \/ \E target \in {2, 4, 5}, amount \in TwinAmounts :
          op["s2"] = NoOp /\ CliTransfer("s2", target, amount)
    \/ CliTransferSelect("s2")
    \/ CliTransferRecipient("s2")
    \/ CliTransferDebit("s2")
    \/ CliTransferCredit("s2")
    \/ CliTransferCommit("s2")

SpecTwin == InitTwin /\ [][NextTwin]_vars

\* Accounts 1 to 4 are open with 500.00 each. The customers of accounts 1
\* and 2 deposit, withdraw and transfer through the web and at the CLI, to
\* each other, to themselves and to account 3; accounts 3 and 4 have no
\* session. Statements may fail, and sessions that wait for each other are
\* found.
FrameTargets == {1, 2, 3}

NextFrame ==
    \/ \E s \in Sessions, amount \in LiveAmounts : Budget /\ WebDeposit(s, amount)
    \/ \E s \in Sessions, amount \in LiveAmounts : Budget /\ WebWithdraw(s, amount, TRUE)
    \/ \E s \in Sessions, target \in FrameTargets, amount \in LiveAmounts :
          Budget /\ WebTransfer(s, target, amount, TRUE)
    \/ \E s \in Sessions, amount \in LiveAmounts : Budget /\ CliDeposit(s, amount)
    \/ \E s \in Sessions, amount \in LiveAmounts : Budget /\ CliWithdraw(s, amount)
    \/ \E s \in Sessions, target \in FrameTargets, amount \in LiveAmounts :
          Budget /\ CliTransfer(s, target, amount)
    \/ StepLive
    \/ \E s \in Sessions : StorageError(s)

SpecFrame == InitTwin /\ [][NextFrame]_vars

\* Two runs of bank_management.py, by the customers of accounts 1 and 2,
\* each with its one connection: they deposit, withdraw and transfer, to each
\* other, to themselves and to account 3, which was never opened, amounts of
\* nothing, of 500.00 and of 600.00; they ask for the balance, change their
\* details and close accounts; statements may fail, and sessions that wait
\* for each other are found.
CliForms == {NoForm, [NoForm EXCEPT !.phone = "x1"], [NoForm EXCEPT !.email = "e2"]}

NextCli ==
    \/ \E s \in Sessions, amount \in TransferAmounts : Budget /\ CliDeposit(s, amount)
    \/ \E s \in Sessions : CliDepositUpdate(s)
    \/ \E s \in Sessions : CliDepositCommit(s)
    \/ \E s \in Sessions, amount \in TransferAmounts : Budget /\ CliWithdraw(s, amount)
    \/ \E s \in Sessions : CliWithdrawSelect(s)
    \/ \E s \in Sessions : CliWithdrawUpdate(s)
    \/ \E s \in Sessions, target \in Recipients, amount \in TransferAmounts :
          Budget /\ CliTransfer(s, target, amount)
    \/ \E s \in Sessions : CliTransferSelect(s)
    \/ \E s \in Sessions : CliTransferRecipient(s)
    \/ \E s \in Sessions : CliTransferDebit(s)
    \/ \E s \in Sessions : CliTransferCredit(s)
    \/ \E s \in Sessions : CliTransferCommit(s)
    \/ \E s \in Sessions : Budget /\ check_balance(s)
    \/ \E s \in Sessions, f \in CliForms : Budget /\ update_account(s, f)
    \/ \E s \in Sessions : CliUpdate(s)
    \/ \E s \in Sessions : CliUpdateCommit(s)
    \/ \E a \in Accounts : Budget /\ delete_account(a, "yes")
    \/ \E s \in Sessions : DeadlockDetected(s)
    \/ \E s \in Sessions : StorageError(s)

SpecCli == InitSeq /\ [][NextCli]_vars

\* Entries are recorded and the three listings are asked for.
NextListing ==
    \E a \in Accounts :
        \/ \E n \in {1, 2} : RecordEntries(a, n)
        \/ dashboard(a)
        \/ WebTransactions(a)
        \/ view_transactions(a)

SpecListing == InitSeq /\ [][NextListing]_vars

\* Time is observed: deposits and transfers through the web and deposits and
\* withdrawals at the CLI of two customers, while the clock moves on.
InitClock ==
    /\ Opened
    /\ now = 1
    /\ login \in {l \in [AllSessions -> Accounts] : l["s1"] = 1 /\ l["s3"] = 2}

ClockAmounts == {500 * Rupee, 1000 * Rupee}

NextClock ==
    \/ Tick
    \/ \E s \in Sessions, amount \in ClockAmounts : Budget /\ WebDeposit(s, amount)
    \/ \E s \in Sessions : WebDepositUpdate(s)
    \/ \E s \in Sessions : WebDepositCommit(s)
    \/ \E s \in Sessions, target \in Accounts, amount \in ClockAmounts :
          Budget /\ WebTransfer(s, target, amount, TRUE)
    \/ \E s \in Sessions : WebTransferRecipient(s)
    \/ \E s \in Sessions : WebTransferDebit(s)
    \/ \E s \in Sessions : WebTransferCredit(s)
    \/ \E s \in Sessions : WebTransferCommit(s)
    \/ \E s \in Sessions, amount \in ClockAmounts : Budget /\ CliDeposit(s, amount)
    \/ \E s \in Sessions : CliDepositUpdate(s)
    \/ \E s \in Sessions : CliDepositCommit(s)
    \/ \E s \in Sessions, amount \in ClockAmounts : Budget /\ CliWithdraw(s, amount)
    \/ \E s \in Sessions : CliWithdrawSelect(s)
    \/ \E s \in Sessions : CliWithdrawUpdate(s)

SpecClock == InitClock /\ [][NextClock]_vars

\* ------------------------------------------------------------- the claims

RECURSIVE SumOver(_, _)
SumOver(f, S) ==
    IF S = {} THEN 0
    ELSE LET a == CHOOSE x \in S : TRUE IN f[a] + SumOver(f, S \ {a})

\* The sum of all balances of a customers table.
Total(table) == SumOver(table, DOMAIN table)

\* Session s has issued a request and the request has returned.
Done(s) == pc[s] = "idle" /\ op[s] # NoOp
Ok(s) == Done(s) /\ res[s].outcome = "ok"
Failed(s) == Done(s) /\ res[s].outcome # "ok"

\* The step that ended s's request left the committed tables as they were.
NothingDurable(s) == res[s].post = res[s].pre /\ res[s].entries = {}

\* The entries of kind txn_type that s's request committed for account a.
EntriesOf(s, a, txn_type) ==
    {e \in res[s].entries : e.account_number = a /\ e.transaction_type = txn_type}

\* C1: in every committed state every account's balance is >= 0.
C1_NoNegativeBalance == \A a \in DOMAIN customers : customers[a] >= 0

\* C2: every committed deposit raises the sum of all balances by its amount,
\* every committed withdrawal lowers it by its amount and every committed
\* transfer leaves it (and the sum of sender and recipient) unchanged, so the
\* sum is always sum(B0) + deposits - withdrawals.
C2_Conservation ==
    \A s \in AllSessions :
        Ok(s) =>
            Total(res[s].post) - Total(res[s].pre) =
                CASE op[s].kind = "deposit" -> op[s].amount
                  [] op[s].kind = "withdraw" -> -op[s].amount
                  [] OTHER -> 0

\* C3: once N concurrent withdrawals of A from a balance of (N - 1) * A have
\* all returned, exactly N - 1 have committed and exactly one was rejected
\* with InsufficientFunds.
C3_ExactlyOneRejected ==
    (\A s \in AllSessions : Done(s)) =>
        /\ Cardinality({s \in AllSessions : res[s].outcome = "ok"})
              = Cardinality(AllSessions) - 1
        /\ Cardinality({s \in AllSessions : res[s].outcome = "InsufficientFunds"}) = 1

\* The four effects of s's transfer are all durable.
TransferWhole(s) ==
    /\ {op[s].acct, op[s].target} \subseteq DOMAIN res[s].held.rows
    /\ res[s].post = Applied(res[s].pre, res[s].held.rows)
    /\ res[s].entries = res[s].held.entries
    /\ EntriesOf(s, op[s].acct, "Transfer Sent") # {}
    /\ EntriesOf(s, op[s].target, "Transfer Received") # {}

\* C4: a transfer that has returned made either all four of its effects
\* durable (both balance updates and both entries) or none of them, and
\* while a request is running none of its entries is in the committed table
\* that other sessions read.
C4_TransferAtomic ==
    /\ \A s \in AllSessions :
          (Done(s) /\ op[s].kind = "transfer") => (NothingDurable(s) \/ TransferWhole(s))
    /\ \A s \in AllSessions : tx[s].entries \cap transactions = {}

\* A web transfer was rolled back after its debit because the recipient was
\* closed between the existence check and the credit.
C4_Witness ==
    \E s \in AllSessions :
        /\ Done(s) /\ op[s].kind = "transfer"
        /\ res[s].outcome = "IntegrityError"
        /\ op[s].acct \in DOMAIN res[s].held.rows
        /\ res[s].held.entries # {}
        /\ op[s].target \notin DOMAIN customers

\* C5: a request that failed, whatever the failure, left every balance and
\* the whole ledger as they were.
C5_FailureChangesNothing ==
    \A s \in AllSessions : Failed(s) => NothingDurable(s)

\* A request failed while its transaction held a balance update and an entry.
C5_Witness ==
    \E s \in AllSessions :
        /\ Failed(s)
        /\ res[s].held.entries # {}
        /\ \E a \in DOMAIN res[s].held.rows : res[s].held.rows[a] # res[s].pre[a]

\* The accounts whose balance s's request changed.
Mutated(s) == {a \in DOMAIN res[s].pre : res[s].post[a] # res[s].pre[a]}

\* C6: a committed request wrote exactly one entry (deposit, withdrawal) or
\* exactly one 'Transfer Sent' and one 'Transfer Received' entry (transfer),
\* every account it changed has its entry, and every entry's balance_after
\* is the committed balance of its account right after the request.
C6_LedgerComplete ==
    \A s \in AllSessions :
        Ok(s) =>
            /\ \A e \in res[s].entries :
                  /\ e.account_number \in DOMAIN res[s].post
                  /\ e.balance_after = res[s].post[e.account_number]
            /\ Mutated(s) \subseteq {e.account_number : e \in res[s].entries}
            /\ CASE op[s].kind = "deposit" ->
                      /\ Cardinality(res[s].entries) = 1
                      /\ EntriesOf(s, op[s].acct, "Deposit") = res[s].entries
                 [] op[s].kind = "withdraw" ->
                      /\ Cardinality(res[s].entries) = 1
                      /\ EntriesOf(s, op[s].acct, "Withdrawal") = res[s].entries
                 [] OTHER ->
                      /\ Cardinality(res[s].entries) = 2
                      /\ Cardinality(EntriesOf(s, op[s].acct, "Transfer Sent")) = 1
                      /\ Cardinality(EntriesOf(s, op[s].target, "Transfer Received")) = 1

\* A withdrawal committed although another request changed the balance
\* between its funds check and its UPDATE.
C6_Witness ==
    \E s \in AllSessions :
        /\ Ok(s) /\ op[s].kind = "withdraw"
        /\ res[s].read.balance # res[s].pre[op[s].acct]

\* Session s has passed its funds check and has not yet debited the account.
PassedFundsCheck(s) ==
    pc[s] \in {"wwd_update", "wtr_recipient", "wtr_debit",
               "cwd_update", "ctr_recipient", "ctr_debit"}

\* C7: never have two requests that debit the same account, two transfers or
\* a transfer and a withdrawal, both passed their funds check against the
\* same committed balance, with neither debit done yet.
C7_ChecksSerialized ==
    \A s, t \in AllSessions :
        (/\ s # t /\ PassedFundsCheck(s) /\ PassedFundsCheck(t)
         /\ op[s].acct = op[t].acct
         /\ "transfer" \in {op[s].kind, op[t].kind})
            => ~(/\ current_balance[s] = current_balance[t]
                 /\ op[s].acct \in DOMAIN customers
                 /\ current_balance[s].balance = customers[op[s].acct])

\* C8: a deposit with amount <= 0 fails with InvalidAmount and changes
\* nothing; a committed deposit makes the balance the old balance + amount
\* and appends exactly one Deposit entry whose balance_after is that balance.
C8_Deposit ==
    \A s \in AllSessions :
        (Done(s) /\ op[s].kind = "deposit") =>
            /\ op[s].amount <= 0 =>
                  (res[s].outcome = "InvalidAmount" /\ NothingDurable(s))
            /\ (op[s].amount > 0 /\ res[s].outcome = "ok") =>
                  /\ res[s].post[op[s].acct] = res[s].pre[op[s].acct] + op[s].amount
                  /\ Cardinality(res[s].entries) = 1
                  /\ \A e \in res[s].entries :
                        /\ e.account_number = op[s].acct
                        /\ e.transaction_type = "Deposit"
                        /\ e.balance_after = res[s].post[op[s].acct]

\* C9: a withdrawal whose amount is positive and at most the balance its
\* funds check read, and which met no storage fault, succeeds: the committed
\* balance is the old balance - amount, is not negative, and exactly one
\* Withdrawal entry is appended.
C9_Withdraw ==
    \A s \in AllSessions :
        (/\ Done(s) /\ op[s].kind = "withdraw"
         /\ op[s].amount > 0
         /\ res[s].read.found /\ op[s].amount <= res[s].read.balance
         /\ res[s].outcome \notin {"StorageError", "NoConnection", "IntegrityError"}) =>
            /\ res[s].outcome = "ok"
            /\ res[s].post[op[s].acct] = res[s].pre[op[s].acct] - op[s].amount
            /\ res[s].post[op[s].acct] >= 0
            /\ Cardinality(EntriesOf(s, op[s].acct, "Withdrawal")) = 1
            /\ Cardinality(res[s].entries) = 1

\* C10: a withdrawal rejected with InsufficientFunds had a connection, asked
\* for more than the account's committed balance, reports exactly that
\* balance and changes nothing.
C10_InsufficientFunds ==
    \A s \in AllSessions :
        (Done(s) /\ op[s].kind = "withdraw" /\ res[s].outcome = "InsufficientFunds") =>
            /\ res[s].connected
            /\ op[s].acct \in DOMAIN res[s].pre
            /\ res[s].read = Some(res[s].pre[op[s].acct])
            /\ op[s].amount > res[s].pre[op[s].acct]
            /\ NothingDurable(s)

\* The error the stated order of a transfer's preconditions yields for s's
\* request: own account, amount, recipient, funds ("none": all of them hold).
FirstFailure(s) ==
    IF op[s].target = op[s].acct THEN "SelfTransfer"
    ELSE IF op[s].amount <= 0 THEN "InvalidAmount"
    ELSE IF op[s].target \notin DOMAIN res[s].pre THEN "RecipientNotFound"
    ELSE IF op[s].amount > res[s].pre[op[s].acct] THEN "InsufficientFunds"
    ELSE "none"

\* C11: a transfer of which some precondition fails reports the first failure
\* in the order SelfTransfer, InvalidAmount, RecipientNotFound,
\* InsufficientFunds.
C11_FirstFailureWins ==
    \A s \in AllSessions :
        (Done(s) /\ op[s].kind = "transfer" /\ FirstFailure(s) # "none") =>
            res[s].outcome = FirstFailure(s)

\* C12: a transfer to the sender's own account, of a positive amount the
\* account holds so that no other precondition fails, is rejected with
\* SelfTransfer through the web handler and through the CLI, and changes no
\* balance and writes no entry.
C12_SelfTransfer ==
    \A s \in AllSessions :
        (/\ Done(s) /\ op[s].kind = "transfer"
         /\ op[s].target = op[s].acct
         /\ op[s].acct \in DOMAIN res[s].pre
         /\ op[s].amount > 0 /\ op[s].amount <= res[s].pre[op[s].acct]) =>
            (res[s].outcome = "SelfTransfer" /\ NothingDurable(s))

\* C13: a committed transfer of a from S to another account R lowers S by a,
\* raises R by a and writes exactly two entries of amount a: a 'Transfer
\* Sent' on S naming R and a 'Transfer Received' on R naming S, each with its
\* account's new balance as balance_after.
C13_TransferPair ==
    \A s \in AllSessions :
        (Ok(s) /\ op[s].kind = "transfer" /\ op[s].target # op[s].acct) =>
            LET S == op[s].acct
                R == op[s].target
                a == op[s].amount
            IN
            /\ res[s].post[S] = res[s].pre[S] - a
            /\ res[s].post[R] = res[s].pre[R] + a
            /\ Cardinality(res[s].entries) = 2
            /\ \E e \in EntriesOf(s, S, "Transfer Sent") :
                  /\ e.related_account = {R} /\ e.amount = a
                  /\ e.balance_after = res[s].post[S]
            /\ \E e \in EntriesOf(s, R, "Transfer Received") :
                  /\ e.related_account = {S} /\ e.amount = a
                  /\ e.balance_after = res[s].post[R]

\* Session s's request is a registration that has returned.
Opening(s) == Done(s) /\ op[s].kind = "open"

\* The accounts s's request created.
Created(s) == DOMAIN res[s].post \ DOMAIN res[s].pre

\* s's request left no account row, no entry and no login behind.
NothingCreated(s) == NothingDurable(s) /\ res[s].bound = {}

\* C14: opening an account of type Savings or Current with an initial
\* deposit below 500 fails with InvalidAmount and creates no account row, no
\* entry and no login; a deposit of 500 or more is never refused as
\* InvalidAmount.
C14_MinimumDeposit ==
    \A s \in AllSessions :
        (Opening(s) /\ op[s].form.account_type \in AccountTypes) =>
            /\ op[s].amount < 500 * Rupee =>
                  (res[s].outcome = "InvalidAmount" /\ NothingCreated(s))
            /\ op[s].amount >= 500 * Rupee => res[s].outcome # "InvalidAmount"

\* One registration with 499.995 was refused and one with exactly 500.00
\* has created its account.
C14_Witness ==
    /\ \E s \in AllSessions :
          /\ Opening(s) /\ op[s].amount = 500 * Rupee - HalfCent
          /\ res[s].outcome = "InvalidAmount"
    /\ \E s \in AllSessions :
          /\ Opening(s) /\ op[s].amount = 500 * Rupee
          /\ res[s].outcome = "ok" /\ Created(s) # {}

\* C15: a committed registration made durable, in its one commit, exactly
\* one account with balance = initial_deposit, exactly one entry, a Deposit
\* of that account described "Initial deposit" with amount and balance_after
\* = initial_deposit, and the login bound to it; a failed one left nothing;
\* and every committed account has a committed Deposit entry.
C15_OpenedWhole ==
    /\ \A s \in AllSessions :
          (Opening(s) /\ res[s].outcome = "ok") =>
              \E a \in Created(s) :
                  /\ Created(s) = {a}
                  /\ res[s].post[a] = op[s].amount
                  /\ res[s].bound = {User(op[s].form.username, {a})}
                  /\ Cardinality(res[s].entries) = 1
                  /\ \A e \in res[s].entries :
                        /\ e.account_number = a
                        /\ e.transaction_type = "Deposit"
                        /\ e.description = "Initial deposit"
                        /\ e.amount = op[s].amount
                        /\ e.balance_after = op[s].amount
    /\ \A s \in AllSessions :
          (Opening(s) /\ res[s].outcome # "ok") => NothingCreated(s)
    /\ \A a \in DOMAIN customers :
          \E e \in transactions :
              e.account_number = a /\ e.transaction_type = "Deposit"

\* C16: a call of delete_account that is not answered 'yes' changes no
\* table; one that is removes the account, all its entries and its login in
\* that one step and leaves every other account, entry and login as it was.
C16_Close ==
    [][closing' # closing =>
          LET a == closing'.account_number IN
          IF closing'.confirm = "yes"
          THEN /\ a \notin DOMAIN customers'
               /\ \A b \in DOMAIN customers \ {a} :
                     b \in DOMAIN customers' /\ customers'[b] = customers[b]
               /\ transactions' = {e \in transactions : e.account_number # a}
               /\ users' = {u \in users : u.account_number # {a}}
          ELSE UNCHANGED <<customers, transactions, users, email>>]_vars

\* An account was closed after a transfer had reached it: the sender's entry
\* that names it is still in the ledger.
C16_Witness ==
    /\ closing.confirm = "yes"
    /\ closing.account_number \notin DOMAIN customers
    /\ \E e \in transactions : e.related_account = {closing.account_number}

C18_Paired ==
    \A e \in transactions :
        (e.transaction_type = "Transfer Sent" /\ e.related_account # {}) =>
            Cardinality({r \in transactions :
                            /\ r.transaction_type = "Transfer Received"
                            /\ {r.account_number} = e.related_account
                            /\ r.related_account = {e.account_number}
                            /\ r.amount = e.amount}) = 1

\* C19: every committed entry belongs to an account that exists.
C19_OwnerExists ==
    \A e \in transactions : e.account_number \in DOMAIN customers

\* A deposit was under way when its account was closed, and was refused.
C19_Witness ==
    \E s \in AllSessions :
        /\ Done(s) /\ op[s].kind = "deposit"
        /\ res[s].outcome \in {"IntegrityError", "TypeError"}
        /\ op[s].acct \notin DOMAIN customers
        /\ closing.account_number = op[s].acct

\* Before(x, y): x is listed before y when entries are ordered by recorded_at
\* descending with ties broken by entry_id descending.
Before(x, y) ==
    \/ x.transaction_date > y.transaction_date
    \/ x.transaction_date = y.transaction_date /\ x.transaction_id > y.transaction_id

\* C20: a listing of an account returns only that account's entries, ordered by
\* recorded_at descending with ties broken by entry_id descending, and with a limit
\* k it returns the first k entries of that order.
C20_ListingOrder ==
    LET result == listing.result
        own == {r \in listing.rows : r.account_number = listing.account_number}
        listed == {result[i] : i \in 1..Len(result)}
    IN  listing.account_number # 0 =>
            /\ listed \subseteq own
            /\ Len(result) = Cardinality(listed)
            /\ \A k \in listing.limit :
                  Len(result) = IF Cardinality(own) < k THEN Cardinality(own) ELSE k
            /\ listing.limit = {} => listed = own
            /\ \A i, j \in 1..Len(result) : i < j => Before(result[i], result[j])
            /\ \A r \in own \ listed : \A i \in 1..Len(result) : Before(result[i], r)

\* C21: recorded_at is monotonic per account: of two entries of the same
\* account, the one that was applied later and has the larger entry_id has a
\* recorded_at that is not earlier, also when the transactions overlap or a
\* CLI connection is kept for long.
C21_RecordedAtMonotonic ==
    \A e1, e2 \in transactions :
        (e1.account_number = e2.account_number /\ e1.transaction_id < e2.transaction_id)
            => e1.transaction_date <= e2.transaction_date

\* The account numbers in use: of the committed rows and of the rows open
\* transactions have inserted.
Assigned == DOMAIN customers \cup UNION {DOMAIN tx[s].rows : s \in AllSessions}

\* C22: account numbers are unique and monotonic: whatever opens (committed or
\* rolled back) and closes came before, a new account gets a number above every
\* number assigned so far (all of which lie below the sequence's next value,
\* which never goes back), so the number of a closed account is not used again,
\* and no account changes its number (the holder's email stays with it).
C22_NumbersMonotonic ==
    [][/\ \A a \in Assigned : a < nextAccount
       /\ nextAccount' >= nextAccount
       /\ \A a \in Assigned' \ Assigned : a >= nextAccount /\ a < nextAccount'
       /\ \A s, t \in AllSessions :
             s # t => DOMAIN tx'[s].rows \cap DOMAIN tx'[t].rows \cap (Assigned' \ DOMAIN customers') = {}
       /\ \A a \in DOMAIN email \cap DOMAIN email' : email'[a] = email[a]]_vars

\* An account was opened after an opening that had taken number 3 was
\* rolled back: it has number 4.
C22_Witness ==
    /\ 4 \in DOMAIN customers
    /\ 3 \notin DOMAIN customers
    /\ \E s \in AllSessions : Opening(s) /\ Ok(s)
    /\ \E s \in AllSessions : Opening(s) /\ Failed(s)

\* C23: row locks are taken in ascending order of account number, so two
\* concurrent transfers in opposite directions never reach a state in which
\* each holds the row lock of one account and waits for the row lock of the
\* other.
C23_NoDeadlock ==
    \A s, t \in AllSessions :
        s # t => ~(/\ Wants(s) \cap Holds(t) # {} /\ Wants(s) \cap Holds(s) = {}
                   /\ Wants(t) \cap Holds(s) # {} /\ Wants(t) \cap Holds(t) = {})

\* C24: no operation suspends for ever: under fair scheduling every deposit,
\* withdrawal or transfer that was started returns to its caller in the end,
\* committed as a whole or rolled back as a whole, also when it has to wait
\* for a row lock another session holds.
C24_Returns ==
    \A s \in Sessions :
        (pc[s] # "idle") ~>
            (Done(s) /\ (NothingDurable(s) \/ res[s].entries = res[s].held.entries))

\* A transfer waited for the row lock of a session that waited for its own,
\* and was rolled back with what it had written.
C24_Witness ==
    \E s \in Sessions :
        /\ Done(s) /\ op[s].kind = "transfer"
        /\ res[s].outcome = "DeadlockDetected"
        /\ DOMAIN res[s].held.rows # {}
        /\ NothingDurable(s)

\* The change of account a's stored balance that s's request made durable.
Change(s, a) == res[s].post[a] - res[s].pre[a]

\* C25: no operation rounds: for every amount a that a deposit, a withdrawal
\* or a transfer accepts, amounts of more than two decimals included, each
\* stored balance it touches changes by exactly a and the amount of each
\* entry it records is exactly a.
C25_NoRounding ==
    \A s \in AllSessions :
        (Ok(s) /\ op[s].kind \in {"deposit", "withdraw", "transfer"}) =>
            /\ \A e \in res[s].entries : e.amount = op[s].amount
            /\ op[s].kind = "deposit" => Change(s, op[s].acct) = op[s].amount
            /\ op[s].kind = "withdraw" => Change(s, op[s].acct) = -op[s].amount
            /\ (op[s].kind = "transfer" /\ op[s].target # op[s].acct) =>
                  /\ Change(s, op[s].acct) = -op[s].amount
                  /\ Change(s, op[s].target) = op[s].amount

\* C26: in every reachable state every stored entry has amount > 0, for
\* every amount that passes the amount > 0 check of the operations.
C26_PositiveAmounts == \A e \in transactions : e.amount > 0

\* Session s has asked for its balance and has the answer.
HasRead(s) == Done(s) /\ op[s].kind = "balance"

\* C27: reads are idempotent and current: the value get_balance returns is the
\* balance the latest committed mutation of the account wrote, so two calls
\* with no committed mutation of the account between them return the same value.
C27_ReadsCurrent ==
    /\ \A s \in AllSessions :
          HasRead(s) => res[s].read = Some(res[s].pre[op[s].acct])
    /\ \A s, t \in AllSessions :
          (/\ HasRead(s) /\ HasRead(t) /\ op[s].acct = op[t].acct
           /\ res[s].pre[op[s].acct] = res[t].pre[op[t].acct])
              => res[s].read = res[t].read

\* What the claim compares of an entry, with the accounts of the web request
\* named as their twins.
Shape(e, twin) ==
    [account_number |-> IF twin THEN Twin(e.account_number) ELSE e.account_number,
     transaction_type |-> e.transaction_type, amount |-> e.amount,
     balance_after |-> e.balance_after,
     related_account |-> IF twin THEN {Twin(a) : a \in e.related_account}
                                 ELSE e.related_account]

\* C28: the web and the CLI follow the same rules: from the same state, with
\* the same account and amount inputs, deposit, withdraw and transfer are
\* accepted or rejected alike and, when accepted, leave the same balances and
\* the same entries (kind, amount, balance_after, related_account).
\* (Of a rejection only the fact is compared here, not its reason.)
C28_SameRules ==
    LET w == "s1"
        c == "s2"
    IN  (/\ Done(w) /\ Done(c)
         /\ op[w].kind = op[c].kind /\ op[w].amount = op[c].amount
         /\ Twin(op[w].target) = op[c].target)
            => /\ Ok(w) <=> Ok(c)
               /\ Ok(w) =>
                     /\ \A a \in {1, 3} : customers[a] = customers[Twin(a)]
                     /\ {Shape(e, TRUE) : e \in res[w].entries}
                           = {Shape(e, FALSE) : e \in res[c].entries}

\* C29: balances change only in a step of a deposit, a withdrawal or a
\* transfer; a step of a profile or account-details update leaves the
\* balances, the entries, the account types, the account numbers and the
\* rows of users as they are, and changes the name, email, phone and address
\* of no account but the holder's; and no step of a deposit, a withdrawal or
\* a transfer changes a row of users.
MoneyMovement == {"deposit", "withdraw", "transfer"}
DetailsUpdate == {"profile", "update"}
StepOf(s, kinds) ==
    \/ pc[s] # "idle" /\ op[s].kind \in kinds /\ (pc'[s] # pc[s] \/ res'[s] # res[s])
    \/ pc[s] = "idle" /\ op'[s] # op[s] /\ op'[s].kind \in kinds
C29_UpdateFrame ==
    [][/\ customers' # customers => \E s \in Sessions : StepOf(s, MoneyMovement)
       /\ \A s \in Sessions :
             StepOf(s, DetailsUpdate) =>
                /\ customers' = customers
                /\ transactions' = transactions
                /\ users' = users
                /\ DOMAIN details' = DOMAIN details
                /\ \A a \in DOMAIN details :
                      /\ details'[a].account_type = details[a].account_type
                      /\ a # op'[s].acct => details'[a] = details[a] /\ email'[a] = email[a]
       /\ \A s \in Sessions : StepOf(s, MoneyMovement) => users' = users]_vars

\* An update through the web and one at the CLI were committed, the first
\* of phone and address (left blank), the second of name and email, and the
\* balances are what they were.
C29_Witness ==
    /\ op["s1"].kind = "profile" /\ res["s1"].outcome = "ok"
    /\ details[1] = [Holder("Savings") EXCEPT !.phone = "x1", !.address = ""]
    /\ op["s2"].kind = "update" /\ res["s2"].outcome = "ok"
    /\ details[2] = [Holder("Savings") EXCEPT !.name = "x1"]
    /\ email[2] = "e9"
    /\ customers = (1 :> 500 * Rupee) @@ (2 :> 1000 * Rupee)

\* C30: in every committed state the balance of each account is the
\* balance_after of the entry of that account with the highest
\* transaction_id, however the requests of the sessions interleave.
Ledger(a) == {e \in transactions : e.account_number = a}
LastEntry(a) ==
    CHOOSE e \in Ledger(a) : \A f \in Ledger(a) : f.transaction_id <= e.transaction_id
C30_BalanceIsLastEntry ==
    \A a \in DOMAIN customers :
        \E e \in transactions :
            /\ e.account_number = a
            /\ e.balance_after = customers[a]
            /\ \A f \in transactions :
                  f.account_number = a => f.transaction_id <= e.transaction_id

\* A transfer from account 1 to account 2 and a deposit into account 1 by
\* another session were both committed, the deposit last: account 1 has
\* three entries and account 2 has two.
C30_Witness ==
    /\ op["s1"].kind = "transfer" /\ res["s1"].outcome = "ok"
    /\ op["s2"].kind = "deposit" /\ op["s2"].acct = 1 /\ res["s2"].outcome = "ok"
    /\ Cardinality(Ledger(1)) = 3
    /\ Cardinality(Ledger(2)) = 2
    /\ LastEntry(1).transaction_type = "Deposit"
    /\ customers[1] = LastEntry(1).balance_after
    /\ customers[1] # 500 * Rupee

\* C31: in every committed state the balance of each account is the sum of
\* the amounts of its 'Deposit' and 'Transfer Received' entries less the sum
\* of the amounts of its 'Withdrawal' and 'Transfer Sent' entries.
Signed(e) ==
    IF e.transaction_type \in {"Deposit", "Transfer Received"} THEN e.amount ELSE -e.amount
RECURSIVE LedgerSum(_)
LedgerSum(S) ==
    IF S = {} THEN 0
    ELSE LET e == CHOOSE x \in S : TRUE IN Signed(e) + LedgerSum(S \ {e})
C31_LedgerExplainsBalance ==
    \A a \in DOMAIN customers : customers[a] = LedgerSum(Ledger(a))

\* C32: a step of a deposit or of a withdrawal on account X leaves the
\* balance and the entries of every account but X as they were, and a step
\* of a transfer from S to R those of every account but S and R.
Touched(o) == IF o.kind = "transfer" THEN {o.acct, o.target} ELSE {o.acct}
C32_OthersUnchanged ==
    [][\A s \in Sessions :
          StepOf(s, MoneyMovement) =>
             /\ DOMAIN customers' = DOMAIN customers
             /\ \A a \in DOMAIN customers \ Touched(op'[s]) :
                   /\ customers'[a] = customers[a]
                   /\ {e \in transactions' : e.account_number = a} = Ledger(a)
             /\ \A e \in transactions' \ transactions : e.account_number \in Touched(op'[s])
             /\ transactions \subseteq transactions']_vars

\* A transfer from account 1 to account 3 and a deposit into account 2 were
\* committed: accounts 1, 2 and 3 have new balances and new entries, and
\* account 4 has the balance and the one entry it had.
C32_Witness ==
    /\ op["s1"].kind = "transfer" /\ op["s1"].target = 3 /\ res["s1"].outcome = "ok"
    /\ op["s2"].kind = "deposit" /\ res["s2"].outcome = "ok"
    /\ customers = (1 :> 0) @@ (2 :> 1000 * Rupee) @@ (3 :> 1000 * Rupee) @@ (4 :> 500 * Rupee)
    /\ Cardinality(Ledger(1)) = 2 /\ Cardinality(Ledger(2)) = 2
    /\ Cardinality(Ledger(3)) = 2 /\ Cardinality(Ledger(4)) = 1

\* C33: whenever an operation of bank_management.py has returned to the menu,
\* the transaction open on the connection holds no write; an operation that
\* was turned down by a check had written nothing when it returned; and what
\* an operation makes durable is what it wrote itself, which is nothing when
\* it was turned down or failed.
Validation == {"InvalidAmount", "InsufficientFunds", "RecipientNotFound", "NoChanges", "NotFound"}
AtMenu(s) == pc[s] = "idle" /\ op[s].entry = "cli"
C33_NothingLeftOpen ==
    \A s \in Sessions :
        AtMenu(s) =>
           /\ tx[s] = EmptyTx
           /\ res[s].outcome \in Validation => res[s].held = EmptyTx
           /\ res[s].outcome = "ok" => res[s].entries = res[s].held.entries
           /\ res[s].outcome # "ok" => NothingDurable(s)

\* The customer of account 1 has used two operations of the menu and the
\* other customer none: the first left nothing durable (it was turned down,
\* it failed, or it only read), and the second, a deposit of 500.00, was
\* committed with its one entry and nothing else.
C33_Witness ==
    /\ started = 2 /\ op["s2"] = NoOp
    /\ AtMenu("s1") /\ op["s1"].kind = "deposit" /\ res["s1"].outcome = "ok"
    /\ res["s1"].held.entries = res["s1"].entries
    /\ Cardinality(Ledger(1)) = 2
    /\ customers = (1 :> 1000 * Rupee) @@ (2 :> 1000 * Rupee)
    /\ details[1] = Holder("Savings") /\ email[1] = "e1"

====
